---- MODULE Spec2Model ----
(***************************************************************************)
(* A model of libs/pbd/event_loop.cc (PBD::EventLoop):                     *)
(*   - the per-thread event loop pointer (thread_event_loop),              *)
(*   - EventLoop::invalidate_request and the requests it invalidates,      *)
(*   - the request buffer suppliers and the table of pre-registered        *)
(*     request buffers (thread_buffer_requests) with its RWLock.           *)
(***************************************************************************)
EXTENDS Naturals, Sequences, FiniteSets, TLC

(***************************************************************************)
(* Bounds of the model.                                                    *)
(***************************************************************************)
NumThreads == 2

NumLoops == 2

NumRecords == 2

NumRequests == 2

\* The longest supplier list register_request_buffer_factory is let to build.
MaxSuppliers == 2

\* The number of request buffers the factories are let to allocate.
MaxBuffers == 3

Threads == 1..NumThreads

Loops == 1..NumLoops

Records == 1..NumRecords

Requests == 1..NumRequests

\* The null EventLoop* (ir->event_loop == 0, thread_event_loop.get () == 0).
NoLoop == 0

\* The null InvalidationRecord* (req->invalidation == 0).
NoRecord == 0

\* No thread (the RWLock has no writer; a zeroed pthread_t).
NoThread == 0

\* The null factory pointer (line 147).
NoFactory == 0

\* The null request buffer of a value-initialised ThreadBufferMapping.
NoBuffer == [factory |-> NoFactory, num_requests |-> 0, thread |-> NoThread, serial |-> 0]

\* Thread and role names.  A name is either plain or holds a '/'.
PlainNames == {"a", "b", "c"}

SlashNames == {"a/b", "b/c"}

\* The inputs of the calls made one after the other: the names pre_register
\* is called with and the threads that call it, the suppliers registered
\* (role name and factory), the role names looked up, the request counts.
EmitterNames == {"a", "b", "c", "a/b"}

EmitterThreads == {1, 2}

SupplierInputs == {<<"c", NoFactory>>, <<"c", 1>>, <<"c", 2>>, <<"b/c", 1>>}

RoleNames == {"c", "b/c"}

Capacities == {64}

\* The same, in the specification of interleaved threads.
ConcEmitterNames == {"a", "b"}

ConcRoleNames == {"c"}

ConcFactories == {1}

\* The role names looked up by concurrent threads: one that is registered
\* and one that is not.
ConcLookupNames == {"c", "b"}

VARIABLES
    \* ---- InvalidationRecord, BaseRequestObject, the loops' mutexes ----
    event_loop,               \* ir->event_loop, per record
    requests,                 \* ir->requests, per record (a list of requests)
    valid,                    \* req->valid, per request
    invalidation,             \* req->invalidation, per request
    slot_invalidation_mutex,  \* per loop: the record whose invalidate_request call
                              \* holds the mutex, NoRecord when it is unlocked
    freed,                    \* per record: how many times `delete ir' ran
    ipc,                      \* per record: where its invalidate_request call stands
    iter,                     \* per record: the list iterator i of line 86
    cpc,                      \* per request: where the consuming loop stands with it
    \* ---- the per-thread event loop pointer ----
    thread_event_loop,        \* per thread: the value of the Private<EventLoop> slot
    deleted,                  \* the loops the slot's destructor callback deallocated
    tpc,                      \* per thread: its last operation on the slot
    got,                      \* per thread: what its last get_event_loop_for_thread returned
    lastSet,                  \* per thread: the argument of its last set_event_loop_for_thread
    \* ---- request buffer suppliers and pre-registered request buffers ----
    request_buffer_suppliers,     \* the list of RequestBufferSupplier {name, factory}
    thread_buffer_requests,       \* the map from key to ThreadBufferMapping
    thread_buffer_requests_lock,  \* the RWLock: its reader threads and its writer thread
    pc,                           \* per thread: where its call stands ("idle": in none)
    local,                        \* per thread: the arguments and locals of its call
    nextBuffer,                   \* how many request buffers the factories have allocated
    latest,                       \* per (emitter name, role name): the mapping last stored for it
    last                          \* the argument and the result of the lookup made as the
                                  \* last call, when calls are made one after the other

invVars == <<event_loop, requests, valid, invalidation, slot_invalidation_mutex,
             freed, ipc, iter, cpc>>

tlsVars == <<thread_event_loop, deleted, tpc, got, lastSet>>

regVars == <<request_buffer_suppliers, thread_buffer_requests,
             thread_buffer_requests_lock, pc, local, nextBuffer, latest, last>>

vars == <<invVars, tlsVars, regVars>>

(***************************************************************************)
(* Helpers.                                                                *)
(***************************************************************************)
RECURSIVE SetToSeq(_)
\* The elements of a finite set of numbers, in increasing order.
SetToSeq(S) ==
    IF S = {} THEN <<>>
    ELSE LET m == CHOOSE x \in S : \A y \in S : x <= y
         IN  <<m>> \o SetToSeq(S \ {m})

Range(s) == {s[i] : i \in 1..Len(s)}

(***************************************************************************)
(* EventLoop::invalidate_request (lines 55-94).                            *)
(***************************************************************************)

\* The records and requests that exist when the destruction hooks start to
\* fire: record r belongs to loop el[r] (or to none), request q was queued
\* with the invalidation record own[q] (or with none).  A request is listed
\* in the record its back-reference names and in no other.
InvInitWith(el, own) ==
    /\ event_loop = el
    /\ requests = [r \in Records |-> SetToSeq({q \in Requests : own[q] = r})]
    /\ valid = [q \in Requests |-> TRUE]
    /\ invalidation = own
    /\ slot_invalidation_mutex = [l \in Loops |-> NoRecord]
    /\ freed = [r \in Records |-> 0]
    /\ ipc = [r \in Records |-> "hook"]
    /\ iter = [r \in Records |-> 1]
    /\ cpc = [q \in Requests |-> "queued"]

\* Records and requests are interchangeable, so only one numbering of each
\* configuration is started from: records numbered by loop, requests by record.
Monotone(f) == \A i, j \in DOMAIN f : i <= j => f[i] <= f[j]

InvInit ==
    \E el \in [Records -> Loops \cup {NoLoop}] :
      \E own \in [Requests -> Records \cup {NoRecord}] :
        /\ Monotone(el)
        /\ Monotone(own)
        /\ InvInitWith(el, own)

\* No request carries an invalidation record and no record has a loop: the
\* state in which invalidate_request has nothing to flip.
InvQuiet ==
    InvInitWith([r \in Records |-> NoLoop], [q \in Requests |-> NoRecord])

FlipValid_All(v, q) == [x \in DOMAIN v |-> FALSE]

FlipValid_None(v, q) == v

FlipValid_Only(v, q) == [x \in DOMAIN v |-> x # q]

\* Line 87: (*i)->valid = false.
FlipValid(v, q) == [v EXCEPT ![q] = FALSE]

\* Line 88: (*i)->invalidation = 0.
ClearInvalidation(inv, q) == [inv EXCEPT ![q] = NoRecord]

\* Line 84: if (ir->event_loop).  Without a loop the function returns 0
\* (line 93) having done nothing else.
InvalidateTest(r) ==
    /\ ipc[r] = "hook"
    /\ ipc' = [ipc EXCEPT ![r] = IF event_loop[r] # NoLoop THEN "l85" ELSE "done"]
    /\ UNCHANGED <<event_loop, requests, valid, invalidation,
                   slot_invalidation_mutex, freed, iter, cpc, tlsVars, regVars>>

InvalidateLock_Global(r) ==
    /\ ipc[r] = "l85"
    /\ \A l \in Loops : slot_invalidation_mutex[l] = NoRecord
    /\ slot_invalidation_mutex' = [l \in Loops |-> r]
    /\ iter' = [iter EXCEPT ![r] = 1]
    /\ ipc' = [ipc EXCEPT ![r] = "l86"]
    /\ UNCHANGED <<event_loop, requests, valid, invalidation, freed, cpc,
                   tlsVars, regVars>>

\* Line 85: Mutex::Lock lm (ir->event_loop->slot_invalidation_mutex()).
InvalidateLock(r) ==
    /\ ipc[r] = "l85"
    /\ slot_invalidation_mutex[event_loop[r]] = NoRecord
    /\ slot_invalidation_mutex' =
          [slot_invalidation_mutex EXCEPT ![event_loop[r]] = r]
    /\ iter' = [iter EXCEPT ![r] = 1]
    /\ ipc' = [ipc EXCEPT ![r] = "l86"]
    /\ UNCHANGED <<event_loop, requests, valid, invalidation, freed, cpc,
                   tlsVars, regVars>>

\* Lines 86-89: one iteration of the loop over ir->requests.
InvalidateFlip(r) ==
    /\ ipc[r] = "l86"
    /\ iter[r] <= Len(requests[r])
    /\ LET q == requests[r][iter[r]]
       IN  /\ valid' = FlipValid(valid, q)
           /\ invalidation' = ClearInvalidation(invalidation, q)
    /\ iter' = [iter EXCEPT ![r] = iter[r] + 1]
    /\ UNCHANGED <<event_loop, requests, slot_invalidation_mutex, freed, ipc, cpc,
                   tlsVars, regVars>>

InvalidateDelete_Unlocked(r) ==
    /\ ipc[r] = "l86"
    /\ iter[r] > Len(requests[r])
    /\ freed' = [freed EXCEPT ![r] = freed[r] + 1]
    /\ slot_invalidation_mutex' =
          [slot_invalidation_mutex EXCEPT ![event_loop[r]] = NoRecord]
    /\ ipc' = [ipc EXCEPT ![r] = "l91"]
    /\ UNCHANGED <<event_loop, requests, valid, invalidation, iter, cpc,
                   tlsVars, regVars>>

\* Lines 86 (i == end) and 90: delete ir, with lm still in scope.
InvalidateDelete(r) ==
    /\ ipc[r] = "l86"
    /\ iter[r] > Len(requests[r])
    /\ freed' = [freed EXCEPT ![r] = freed[r] + 1]
    /\ ipc' = [ipc EXCEPT ![r] = "l91"]
    /\ UNCHANGED <<event_loop, requests, valid, invalidation,
                   slot_invalidation_mutex, iter, cpc, tlsVars, regVars>>

InvalidateUnlock_Keep(r) ==
    /\ ipc[r] = "l91"
    /\ ipc' = [ipc EXCEPT ![r] = "done"]
    /\ UNCHANGED <<event_loop, requests, valid, invalidation,
                   slot_invalidation_mutex, freed, iter, cpc, tlsVars, regVars>>

\* Line 91: the end of lm's scope unlocks the mutex; line 93: return 0.
InvalidateUnlock(r) ==
    /\ ipc[r] = "l91"
    /\ slot_invalidation_mutex' =
          [slot_invalidation_mutex EXCEPT ![event_loop[r]] = NoRecord]
    /\ ipc' = [ipc EXCEPT ![r] = "done"]
    /\ UNCHANGED <<event_loop, requests, valid, invalidation, freed, iter, cpc,
                   tlsVars, regVars>>

(***************************************************************************)
(* The consuming event loop.  Its code is not in event_loop.cc; it is      *)
(* modelled as the specification describes it: it dequeues a request,      *)
(* checks valid without taking the invalidation mutex, and runs the        *)
(* request if the check passed.                                            *)
(***************************************************************************)
ConsumerCheck(q) ==
    /\ cpc[q] = "queued"
    /\ cpc' = [cpc EXCEPT ![q] = IF valid[q] THEN "checked" ELSE "dropped"]
    /\ UNCHANGED <<event_loop, requests, valid, invalidation,
                   slot_invalidation_mutex, freed, ipc, iter, tlsVars, regVars>>

ConsumerRun(q) ==
    /\ cpc[q] = "checked"
    /\ cpc' = [cpc EXCEPT ![q] = IF valid[q] THEN "ran" ELSE "ranInvalid"]
    /\ UNCHANGED <<event_loop, requests, valid, invalidation,
                   slot_invalidation_mutex, freed, ipc, iter, tlsVars, regVars>>

(***************************************************************************)
(* Properties of invalidate_request.                                       *)
(***************************************************************************)

\* The record that lists request q, NoRecord when none does.
ListedIn(q) ==
    IF \E r \in Records : q \in Range(requests[r])
    THEN CHOOSE r \in Records : q \in Range(requests[r])
    ELSE NoRecord

\* The loop of lines 86-89 has visited request q.
Processed(q) ==
    \E r \in Records : \E i \in 1..Len(requests[r]) :
        requests[r][i] = q /\ i < iter[r]

HoldsMutex(r) ==
    event_loop[r] # NoLoop /\ slot_invalidation_mutex[event_loop[r]] = r

\* C1: once invalidate_request has run its loop for a record that has an
\* event loop, every request the record lists is invalid and detached; and a
\* request that no invalidate_request loop has visited (in particular one the
\* record does not list) still has valid = true and its original
\* back-reference.
C1_FlipsExactlyTheListed ==
    /\ \A r \in Records :
         event_loop[r] # NoLoop /\ ipc[r] \in {"l91", "done"} =>
            \A q \in Range(requests[r]) :
                ~valid[q] /\ invalidation[q] = NoRecord
    /\ \A q \in Requests :
         ~Processed(q) => valid[q] /\ invalidation[q] = ListedIn(q)

C1_Witness ==
    \E r \in Records : \E q \in Requests :
        /\ event_loop[r] # NoLoop
        /\ ipc[r] = "done"
        /\ Len(requests[r]) >= 1
        /\ q \notin Range(requests[r])
        /\ valid[q]

\* C2 as claimed: no request is run once invalidate_request has set its
\* valid flag to false.
C2_NeverRunOnceInvalid ==
    \A q \in Requests : cpc[q] # "ranInvalid"

\* C2 as amended: a request that invalidate_request has visited before the
\* consumer checks it does not pass the check, and a request the consumer
\* dropped is never run.
C2_InvalidAtCheckIsDropped ==
    [][\A q \in Requests :
          /\ (cpc[q] = "queued" /\ Processed(q) => cpc'[q] \in {"queued", "dropped"})
          /\ (cpc[q] = "dropped" => cpc'[q] = "dropped")]_vars

C2_Witness ==
    \E q \in Requests : Processed(q) /\ cpc[q] = "dropped"

\* C7 as claimed: invalidate_request on a record without an event loop
\* changes no request, takes no mutex and frees the record.
C7_NoLoopStillFrees ==
    \A r \in Records :
        event_loop[r] = NoLoop /\ ipc[r] = "done" =>
            /\ \A q \in Range(requests[r]) : valid[q] /\ invalidation[q] = r
            /\ \A l \in Loops : slot_invalidation_mutex[l] # r
            /\ freed[r] = 1

C9_EveryRecordFreedOnce ==
    \A r \in Records :
        /\ freed[r] <= 1
        /\ freed[r] = 1 => iter[r] > Len(requests[r])
        /\ ipc[r] = "done" => freed[r] = 1

(***************************************************************************)
(* The per-thread event loop pointer (lines 30-53).                        *)
(***************************************************************************)
TlsInit ==
    /\ thread_event_loop = [t \in Threads |-> NoLoop]
    /\ deleted = {}
    /\ tpc = [t \in Threads |-> "none"]
    /\ got = [t \in Threads |-> NoLoop]
    /\ lastSet = [t \in Threads |-> NoLoop]

\* Line 30: the destructor callback of the slot does nothing.
do_not_delete_the_loop_pointer(del, p) == del

PrivateSet_Global(slots, t, loop) == [u \in DOMAIN slots |-> loop]

\* Line 52: Private<EventLoop>::set stores into the calling thread's slot.
PrivateSet(slots, t, loop) == [slots EXCEPT ![t] = loop]

\* Line 46: Private<EventLoop>::get reads the calling thread's slot.
PrivateGet(slots, t) == slots[t]

\* Lines 43-47.
get_event_loop_for_thread(t) ==
    /\ tpc[t] # "exited"
    /\ got' = [got EXCEPT ![t] = PrivateGet(thread_event_loop, t)]
    /\ tpc' = [tpc EXCEPT ![t] = "got"]
    /\ UNCHANGED <<thread_event_loop, deleted, lastSet, invVars, regVars>>

\* Lines 49-53.  The previous value is overwritten, not passed to anything.
set_event_loop_for_thread(t, loop) ==
    /\ tpc[t] # "exited"
    /\ thread_event_loop' = PrivateSet(thread_event_loop, t, loop)
    /\ lastSet' = [lastSet EXCEPT ![t] = loop]
    /\ tpc' = [tpc EXCEPT ![t] = "set"]
    /\ UNCHANGED <<deleted, got, invVars, regVars>>

\* Line 32: when a thread ends, its slot's value, if not null, is handed to
\* the destructor callback the slot was constructed with.
ThreadExit(t) ==
    /\ tpc[t] # "exited"
    /\ deleted' = IF thread_event_loop[t] # NoLoop
                  THEN do_not_delete_the_loop_pointer(deleted, thread_event_loop[t])
                  ELSE deleted
    /\ thread_event_loop' = [thread_event_loop EXCEPT ![t] = NoLoop]
    /\ tpc' = [tpc EXCEPT ![t] = "exited"]
    /\ UNCHANGED <<got, lastSet, invVars, regVars>>

\* C10: what get_event_loop_for_thread returns to a thread is the loop that
\* thread last passed to set_event_loop_for_thread (no loop if it never set
\* one), whatever other threads set; and no loop is ever deallocated through
\* the slot.
C10_GetReturnsOwnLastSet ==
    /\ \A t \in Threads : tpc[t] = "got" => got[t] = lastSet[t]
    /\ deleted = {}

\* Thread t reads back its own loop while another thread has set a
\* different one.
C10_Witness ==
    \E t, u \in Threads :
        /\ t # u
        /\ tpc[t] = "got" /\ got[t] # NoLoop
        /\ tpc[u] = "set" /\ thread_event_loop[u] \notin {NoLoop, got[t]}

TlsNext ==
    \/ \E t \in Threads : get_event_loop_for_thread(t)
    \/ \E t \in Threads : \E loop \in Loops \cup {NoLoop} :
          set_event_loop_for_thread(t, loop)
    \/ \E t \in Threads : ThreadExit(t)

InvNext ==
    \/ \E r \in Records : InvalidateTest(r)
    \/ \E r \in Records : InvalidateLock(r)
    \/ \E r \in Records : InvalidateFlip(r)
    \/ \E r \in Records : InvalidateDelete(r)
    \/ \E r \in Records : InvalidateUnlock(r)
    \/ \E q \in Requests : ConsumerCheck(q)
    \/ \E q \in Requests : ConsumerRun(q)

(***************************************************************************)
(* The request buffer suppliers and the pre-registered request buffers     *)
(* (lines 34-36 and 96-190).                                               *)
(***************************************************************************)

\* A value-initialised ThreadBufferMapping.
DefaultMapping ==
    [emitting_thread |-> NoThread, target_thread_name |-> "", request_buffer |-> NoBuffer]

\* The locals of a thread that is in no call.
NoCall ==
    [name |-> "", factory |-> NoFactory, num_requests |-> 0, trs |-> 0,
     mapping |-> DefaultMapping, key |-> "", ret |-> <<>>]

\* The last call was no lookup.
NoLast == [op |-> "none", target_thread |-> "", ret |-> <<>>]

\* Lines 34-36: the lock is unlocked, the map and the list are empty.
RegInit ==
    /\ request_buffer_suppliers = <<>>
    /\ thread_buffer_requests = [k \in {} |-> DefaultMapping]
    /\ thread_buffer_requests_lock = [readers |-> {}, writer |-> NoThread]
    /\ pc = [t \in Threads |-> "idle"]
    /\ local = [t \in Threads |-> NoCall]
    /\ nextBuffer = 0
    /\ latest = [p \in {} |-> DefaultMapping]
    /\ last = NoLast

Put_Alone(m, k, v) == [x \in {k} |-> v]

\* Line 188, operator[] and assignment: the map with key k set to v.
Put(m, k, v) == [x \in DOMAIN m \cup {k} |-> IF x = k THEN v ELSE m[x]]

RECURSIVE Sum(_, _)
Sum(f, S) ==
    IF S = {} THEN 0
    ELSE LET x == CHOOSE y \in S : TRUE IN f[x] + Sum(f, S \ {x})

CanWriteLock_AmongReaders(l) == l.writer = NoThread

\* Glib::Threads::RWLock: a writer excludes every other thread, readers
\* exclude writers only.
CanWriteLock(l) == l.writer = NoThread /\ l.readers = {}

CanReadLock(l) == l.writer = NoThread

WriterLock(l, t) == [l EXCEPT !.writer = t]

WriterUnlock(l, t) == [l EXCEPT !.writer = NoThread]

ReaderLock(l, t) == [l EXCEPT !.readers = @ \cup {t}]

ReaderUnlock(l, t) == [l EXCEPT !.readers = @ \ {t}]

HasNoFactory_Never(s) == FALSE

\* Line 147: if (!trs->factory) continue.
HasNoFactory(s) == s.factory = NoFactory

IsSelf_Never(emitting_thread_name, s) == FALSE

\* Line 152: if (emitting_thread_name == trs->name) continue.
IsSelf(emitting_thread_name, s) == emitting_thread_name = s.name

\* Line 164: trs->factory (num_requests), run by thread t, returns a request
\* buffer that no earlier call returned.
CallFactory(f, n, t, serial) ==
    [factory |-> f, num_requests |-> n, thread |-> t, serial |-> serial]

MakeKey_TargetOnly(emitting_thread_name, target_thread_name) ==
    "/" \o target_thread_name

\* Lines 173-175: key = emitting_thread_name; key += '/'; key += target.
MakeKey(emitting_thread_name, target_thread_name) ==
    emitting_thread_name \o "/" \o target_thread_name

\* Lines 157-164: the mapping thread t builds for supplier s.
BuildMapping(t, s, num_requests, serial) ==
    [emitting_thread |-> t,
     target_thread_name |-> s.name,
     request_buffer |-> CallFactory(s.factory, num_requests, t, serial)]

StoreMapping_Insert(table, key, mapping) ==
    IF key \in DOMAIN table THEN table ELSE Put(table, key, mapping)

\* Line 188: thread_buffer_requests[key] = mapping.
StoreMapping(table, key, mapping) == Put(table, key, mapping)

\* How many suppliers from index i on pre_register (emitter) will not skip.
Unskipped(emitting_thread_name, i) ==
    Cardinality({j \in i..Len(request_buffer_suppliers) :
                   /\ ~HasNoFactory(request_buffer_suppliers[j])
                   /\ ~IsSelf(emitting_thread_name, request_buffer_suppliers[j])})

\* The suppliers listed or about to be.
Potential ==
    Len(request_buffer_suppliers)
      + Cardinality({u \in Threads : pc[u] \in {"l123", "l124"}})

\* The request buffers a thread's call may yet allocate, at most.
Reserved ==
    [u \in Threads |->
        CASE pc[u] = "l143" -> Potential
          [] pc[u] = "l145" -> Unskipped(local[u].name, local[u].trs)
          [] pc[u] \in {"l188", "l188a", "l188b", "l188c"} ->
                Unskipped(local[u].name, local[u].trs + 1)
          [] OTHER -> 0]

\* ---- register_request_buffer_factory (lines 113-126) ----

PushBack_Unique(list, trs) ==
    IF \E i \in 1..Len(list) : list[i].name = trs.name THEN list ELSE Append(list, trs)

\* Line 124: push_back adds the supplier at the end of the list.
PushBack(list, trs) == Append(list, trs)

\* Lines 118-120: the supplier is built from the arguments.
RegisterCall(t, target_thread_name, factory) ==
    /\ pc[t] = "idle"
    /\ Potential < MaxSuppliers
    /\ nextBuffer + Sum(Reserved, Threads)
         + Cardinality({u \in Threads : pc[u] = "l143"}) <= MaxBuffers
    /\ local' = [local EXCEPT ![t] =
                    [NoCall EXCEPT !.name = target_thread_name, !.factory = factory]]
    /\ pc' = [pc EXCEPT ![t] = "l123"]
    /\ UNCHANGED <<request_buffer_suppliers, thread_buffer_requests,
                   thread_buffer_requests_lock, nextBuffer, latest, last, invVars, tlsVars>>

\* Line 123: WriterLock lm (thread_buffer_requests_lock).
RegisterLock(t) ==
    /\ pc[t] = "l123"
    /\ CanWriteLock(thread_buffer_requests_lock)
    /\ thread_buffer_requests_lock' = WriterLock(thread_buffer_requests_lock, t)
    /\ pc' = [pc EXCEPT ![t] = "l124"]
    /\ UNCHANGED <<request_buffer_suppliers, thread_buffer_requests, local,
                   nextBuffer, latest, last, invVars, tlsVars>>

\* Line 124: request_buffer_suppliers.push_back (trs).
RegisterPushBack(t) ==
    /\ pc[t] = "l124"
    /\ request_buffer_suppliers' =
          PushBack(request_buffer_suppliers,
                   [name |-> local[t].name, factory |-> local[t].factory])
    /\ pc' = [pc EXCEPT ![t] = "l125"]
    /\ UNCHANGED <<thread_buffer_requests, thread_buffer_requests_lock, local,
                   nextBuffer, latest, last, invVars, tlsVars>>

\* Line 125: the end of lm's scope; line 126: return.
RegisterUnlock(t) ==
    /\ pc[t] = "l125"
    /\ thread_buffer_requests_lock' = WriterUnlock(thread_buffer_requests_lock, t)
    /\ local' = [local EXCEPT ![t] = NoCall]
    /\ pc' = [pc EXCEPT ![t] = "idle"]
    /\ UNCHANGED <<request_buffer_suppliers, thread_buffer_requests,
                   nextBuffer, latest, last, invVars, tlsVars>>

\* ---- pre_register (lines 128-190) ----

\* Line 142: ThreadBufferMapping mapping.
PreRegisterCall(t, emitting_thread_name, num_requests) ==
    /\ pc[t] = "idle"
    /\ nextBuffer + Sum(Reserved, Threads) + Potential <= MaxBuffers
    /\ local' = [local EXCEPT ![t] =
                    [NoCall EXCEPT !.name = emitting_thread_name,
                                   !.num_requests = num_requests]]
    /\ pc' = [pc EXCEPT ![t] = "l143"]
    /\ UNCHANGED <<request_buffer_suppliers, thread_buffer_requests,
                   thread_buffer_requests_lock, nextBuffer, latest, last, invVars, tlsVars>>

\* Line 143: ReaderLock lm (thread_buffer_requests_lock); line 145: trs = begin().
PreRegisterLock(t) ==
    /\ pc[t] = "l143"
    /\ CanReadLock(thread_buffer_requests_lock)
    /\ thread_buffer_requests_lock' = ReaderLock(thread_buffer_requests_lock, t)
    /\ local' = [local EXCEPT ![t].trs = 1]
    /\ pc' = [pc EXCEPT ![t] = "l145"]
    /\ UNCHANGED <<request_buffer_suppliers, thread_buffer_requests,
                   nextBuffer, latest, last, invVars, tlsVars>>

\* Lines 145-155: a supplier without a factory, or named like the emitter, is
\* skipped (continue; ++trs).
PreRegisterSkip(t) ==
    /\ pc[t] = "l145"
    /\ local[t].trs <= Len(request_buffer_suppliers)
    /\ LET s == request_buffer_suppliers[local[t].trs]
       IN  HasNoFactory(s) \/ IsSelf(local[t].name, s)
    /\ local' = [local EXCEPT ![t].trs = @ + 1]
    /\ UNCHANGED <<request_buffer_suppliers, thread_buffer_requests,
                   thread_buffer_requests_lock, pc, nextBuffer, latest, last,
                   invVars, tlsVars>>

\* Lines 157-175: the mapping is filled in, with a request buffer from the
\* supplier's factory, and the key is composed.
PreRegisterBuild(t) ==
    /\ pc[t] = "l145"
    /\ local[t].trs <= Len(request_buffer_suppliers)
    /\ LET s == request_buffer_suppliers[local[t].trs]
       IN  /\ ~HasNoFactory(s)
           /\ ~IsSelf(local[t].name, s)
           /\ local' = [local EXCEPT
                  ![t].mapping = BuildMapping(t, s, local[t].num_requests, nextBuffer + 1),
                  ![t].key = MakeKey(local[t].name, s.name)]
    /\ nextBuffer' = nextBuffer + 1
    /\ pc' = [pc EXCEPT ![t] = "l188"]
    /\ UNCHANGED <<request_buffer_suppliers, thread_buffer_requests,
                   thread_buffer_requests_lock, latest, last, invVars, tlsVars>>

\* The threads between the first and the last write of line 188.
Storing == {u \in Threads : pc[u] \in {"l188a", "l188b", "l188c"}}

\* Line 188, thread_buffer_requests[key]: the map's entry for the key, made
\* with a value-initialised mapping if the map has none.
PreRegisterIndex(t) ==
    /\ pc[t] = "l188"
    /\ thread_buffer_requests' =
          IF local[t].key \in DOMAIN thread_buffer_requests
          THEN thread_buffer_requests
          ELSE Put(thread_buffer_requests, local[t].key, DefaultMapping)
    /\ latest' = Put(latest,
                     <<local[t].name, local[t].mapping.target_thread_name>>,
                     local[t].mapping)
    /\ pc' = [pc EXCEPT ![t] = "l188a"]
    /\ UNCHANGED <<request_buffer_suppliers, thread_buffer_requests_lock, local,
                   nextBuffer, last, invVars, tlsVars>>

\* Line 188 under a data race: an entry made while another thread is writing
\* the map (only reader locks are held) may not become part of the map; the
\* writes that follow then go to an entry the map does not hold.
PreRegisterIndexLost(t) ==
    /\ pc[t] = "l188"
    /\ local[t].key \notin DOMAIN thread_buffer_requests
    /\ Storing \ {t} # {}
    /\ latest' = Put(latest,
                     <<local[t].name, local[t].mapping.target_thread_name>>,
                     local[t].mapping)
    /\ pc' = [pc EXCEPT ![t] = "l188a"]
    /\ UNCHANGED <<request_buffer_suppliers, thread_buffer_requests,
                   thread_buffer_requests_lock, local, nextBuffer, last,
                   invVars, tlsVars>>

\* The map with member `field' of the entry for key set to value (the map as
\* it is when it holds no such entry).
AssignMember(table, key, field, value) ==
    IF key \in DOMAIN table
    THEN [table EXCEPT ![key] = [@ EXCEPT ![field] = value]]
    ELSE table

\* Line 188, ... = mapping: the members are copied one after the other.
PreRegisterAssignThread(t) ==
    /\ pc[t] = "l188a"
    /\ thread_buffer_requests' =
          AssignMember(thread_buffer_requests, local[t].key, "emitting_thread",
                       local[t].mapping.emitting_thread)
    /\ pc' = [pc EXCEPT ![t] = "l188b"]
    /\ UNCHANGED <<request_buffer_suppliers, thread_buffer_requests_lock, local,
                   nextBuffer, latest, last, invVars, tlsVars>>

PreRegisterAssignName(t) ==
    /\ pc[t] = "l188b"
    /\ thread_buffer_requests' =
          AssignMember(thread_buffer_requests, local[t].key, "target_thread_name",
                       local[t].mapping.target_thread_name)
    /\ pc' = [pc EXCEPT ![t] = "l188c"]
    /\ UNCHANGED <<request_buffer_suppliers, thread_buffer_requests_lock, local,
                   nextBuffer, latest, last, invVars, tlsVars>>

\* The last member is copied; line 145: ++trs.
PreRegisterAssignBuffer(t) ==
    /\ pc[t] = "l188c"
    /\ thread_buffer_requests' =
          AssignMember(thread_buffer_requests, local[t].key, "request_buffer",
                       local[t].mapping.request_buffer)
    /\ local' = [local EXCEPT ![t].trs = @ + 1]
    /\ pc' = [pc EXCEPT ![t] = "l145"]
    /\ UNCHANGED <<request_buffer_suppliers, thread_buffer_requests_lock,
                   nextBuffer, latest, last, invVars, tlsVars>>

\* Line 145: trs == end(), the loop is over.
PreRegisterLoopEnd(t) ==
    /\ pc[t] = "l145"
    /\ local[t].trs > Len(request_buffer_suppliers)
    /\ pc' = [pc EXCEPT ![t] = "l190"]
    /\ UNCHANGED <<request_buffer_suppliers, thread_buffer_requests,
                   thread_buffer_requests_lock, local, nextBuffer, latest, last,
                   invVars, tlsVars>>

\* Line 190: the end of lm's scope; return.
PreRegisterReturn(t) ==
    /\ pc[t] = "l190"
    /\ thread_buffer_requests_lock' = ReaderUnlock(thread_buffer_requests_lock, t)
    /\ local' = [local EXCEPT ![t] = NoCall]
    /\ pc' = [pc EXCEPT ![t] = "idle"]
    /\ UNCHANGED <<request_buffer_suppliers, thread_buffer_requests,
                   nextBuffer, latest, last, invVars, tlsVars>>

\* ---- get_request_buffers_for_target_thread (lines 96-111) ----

RECURSIVE Matching_All(_, _, _)
Matching_All(table, keys, target_thread) ==
    IF keys = {} THEN <<>>
    ELSE LET k == CHOOSE x \in keys : TRUE
         IN  <<table[k]>> \o Matching_All(table, keys \ {k}, target_thread)

RECURSIVE Matching(_, _, _)
\* Lines 102-108: the mappings of the map whose target_thread_name is
\* target_thread, each pushed back on ret.  The map is walked key by key;
\* the order of the keys is std::map's, here a fixed one.
Matching(table, keys, target_thread) ==
    IF keys = {} THEN <<>>
    ELSE LET k == CHOOSE x \in keys : TRUE
         IN  (IF table[k].target_thread_name = target_thread
              THEN <<table[k]>> ELSE <<>>)
             \o Matching(table, keys \ {k}, target_thread)

\* Line 99: vector<ThreadBufferMapping> ret.
LookupCall(t, target_thread) ==
    /\ pc[t] = "idle"
    /\ local' = [local EXCEPT ![t] = [NoCall EXCEPT !.name = target_thread]]
    /\ pc' = [pc EXCEPT ![t] = "l100"]
    /\ UNCHANGED <<request_buffer_suppliers, thread_buffer_requests,
                   thread_buffer_requests_lock, nextBuffer, latest, last, invVars, tlsVars>>

\* Line 100: WriterLock lm (thread_buffer_requests_lock).
LookupLock(t) ==
    /\ pc[t] = "l100"
    /\ CanWriteLock(thread_buffer_requests_lock)
    /\ thread_buffer_requests_lock' = WriterLock(thread_buffer_requests_lock, t)
    /\ pc' = [pc EXCEPT ![t] = "l102"]
    /\ UNCHANGED <<request_buffer_suppliers, thread_buffer_requests, local,
                   nextBuffer, latest, last, invVars, tlsVars>>

\* Lines 102-108.
LookupScan(t) ==
    /\ pc[t] = "l102"
    /\ local' = [local EXCEPT ![t].ret =
                    Matching(thread_buffer_requests, DOMAIN thread_buffer_requests,
                             local[t].name)]
    /\ pc' = [pc EXCEPT ![t] = "l110"]
    /\ UNCHANGED <<request_buffer_suppliers, thread_buffer_requests,
                   thread_buffer_requests_lock, nextBuffer, latest, last, invVars, tlsVars>>

\* Line 110: return ret; line 111: the end of lm's scope.
LookupReturn(t) ==
    /\ pc[t] = "l110"
    /\ thread_buffer_requests_lock' = WriterUnlock(thread_buffer_requests_lock, t)
    /\ local' = [local EXCEPT ![t] = NoCall]
    /\ pc' = [pc EXCEPT ![t] = "idle"]
    /\ UNCHANGED <<request_buffer_suppliers, thread_buffer_requests,
                   nextBuffer, latest, last, invVars, tlsVars>>

\* ---- the calls, each as a whole ----

register_request_buffer_factory_Resetting(target_thread_name, factory) ==
    /\ \A u \in Threads : pc[u] = "idle"
    /\ Len(request_buffer_suppliers) < MaxSuppliers
    /\ request_buffer_suppliers' =
          PushBack(request_buffer_suppliers,
                   [name |-> target_thread_name, factory |-> factory])
    /\ thread_buffer_requests' = [k \in {} |-> DefaultMapping]
    /\ last' = NoLast
    /\ UNCHANGED <<thread_buffer_requests_lock, pc, local,
                   nextBuffer, latest, invVars, tlsVars>>

\* Lines 113-126.
register_request_buffer_factory(target_thread_name, factory) ==
    /\ \A u \in Threads : pc[u] = "idle"
    /\ Len(request_buffer_suppliers) < MaxSuppliers
    /\ request_buffer_suppliers' =
          PushBack(request_buffer_suppliers,
                   [name |-> target_thread_name, factory |-> factory])
    /\ last' = NoLast
    /\ UNCHANGED <<thread_buffer_requests, thread_buffer_requests_lock, pc, local,
                   nextBuffer, latest, invVars, tlsVars>>

RECURSIVE PreRegisterLoop(_, _, _, _, _)
\* Lines 145-189, from supplier i on: st holds the map, the number of request
\* buffers allocated so far and the mappings last stored.
PreRegisterLoop(t, emitting_thread_name, num_requests, i, st) ==
    IF i > Len(request_buffer_suppliers) THEN st
    ELSE LET s == request_buffer_suppliers[i]
         IN  IF HasNoFactory(s) \/ IsSelf(emitting_thread_name, s)
             THEN PreRegisterLoop(t, emitting_thread_name, num_requests, i + 1, st)
             ELSE LET mapping == BuildMapping(t, s, num_requests, st.nextBuffer + 1)
                      key == MakeKey(emitting_thread_name, s.name)
                  IN  PreRegisterLoop(t, emitting_thread_name, num_requests, i + 1,
                         [table |-> StoreMapping(st.table, key, mapping),
                          nextBuffer |-> st.nextBuffer + 1,
                          latest |-> Put(st.latest, <<emitting_thread_name, s.name>>,
                                         mapping)])

\* Lines 128-190.
pre_register(t, emitting_thread_name, num_requests) ==
    /\ \A u \in Threads : pc[u] = "idle"
    /\ nextBuffer + Unskipped(emitting_thread_name, 1) <= MaxBuffers
    /\ LET st == PreRegisterLoop(t, emitting_thread_name, num_requests, 1,
                    [table |-> thread_buffer_requests, nextBuffer |-> nextBuffer,
                     latest |-> latest])
       IN  /\ thread_buffer_requests' = st.table
           /\ nextBuffer' = st.nextBuffer
           /\ latest' = st.latest
    /\ last' = NoLast
    /\ UNCHANGED <<request_buffer_suppliers, thread_buffer_requests_lock, pc, local,
                   invVars, tlsVars>>

\* Lines 96-111.
get_request_buffers_for_target_thread(target_thread) ==
    /\ \A u \in Threads : pc[u] = "idle"
    /\ last' = [op |-> "lookup", target_thread |-> target_thread,
                ret |-> Matching(thread_buffer_requests,
                                 DOMAIN thread_buffer_requests, target_thread)]
    /\ UNCHANGED <<request_buffer_suppliers, thread_buffer_requests,
                   thread_buffer_requests_lock, pc, local, nextBuffer, latest,
                   invVars, tlsVars>>

\* The calls made one after the other, each as a whole.
CallsNext ==
    \/ \E s \in SupplierInputs : register_request_buffer_factory(s[1], s[2])
    \/ \E t \in EmitterThreads : \E e \in EmitterNames : \E n \in Capacities :
          pre_register(t, e, n)
    \/ \E n \in RoleNames : get_request_buffers_for_target_thread(n)

\* The calls of the threads interleaved, step by step.
ThreadsNext ==
    \/ \E t \in EmitterThreads : \E n \in ConcRoleNames : \E f \in ConcFactories \cup {NoFactory} :
          RegisterCall(t, n, f)
    \/ \E t \in EmitterThreads : RegisterLock(t)
    \/ \E t \in EmitterThreads : RegisterPushBack(t)
    \/ \E t \in EmitterThreads : RegisterUnlock(t)
    \/ \E t \in EmitterThreads : \E e \in ConcEmitterNames : \E n \in Capacities :
          PreRegisterCall(t, e, n)
    \/ \E t \in EmitterThreads : PreRegisterLock(t)
    \/ \E t \in EmitterThreads : PreRegisterSkip(t)
    \/ \E t \in EmitterThreads : PreRegisterBuild(t)
    \/ \E t \in EmitterThreads : PreRegisterIndex(t)
    \/ \E t \in EmitterThreads : PreRegisterIndexLost(t)
    \/ \E t \in EmitterThreads : PreRegisterAssignThread(t)
    \/ \E t \in EmitterThreads : PreRegisterAssignName(t)
    \/ \E t \in EmitterThreads : PreRegisterAssignBuffer(t)
    \/ \E t \in EmitterThreads : PreRegisterLoopEnd(t)
    \/ \E t \in EmitterThreads : PreRegisterReturn(t)
    \/ \E t \in EmitterThreads : \E n \in ConcLookupNames : LookupCall(t, n)
    \/ \E t \in EmitterThreads : LookupLock(t)
    \/ \E t \in EmitterThreads : LookupScan(t)
    \/ \E t \in EmitterThreads : LookupReturn(t)

(***************************************************************************)
(* Properties of the registry calls.                                       *)
(***************************************************************************)

\* The keys pre_register (emitter) is to store under: emitter + "/" + role
\* for the suppliers that have a factory and another name than the emitter.
EligibleKeys(emitter) ==
    {emitter \o "/" \o request_buffer_suppliers[i].name :
        i \in {j \in 1..Len(request_buffer_suppliers) :
                  /\ request_buffer_suppliers[j].factory # NoFactory
                  /\ request_buffer_suppliers[j].name # emitter}}

\* The keys whose entry the step made or changed.
ChangedKeys ==
    {k \in DOMAIN thread_buffer_requests' :
        \/ k \notin DOMAIN thread_buffer_requests
        \/ thread_buffer_requests'[k] # thread_buffer_requests[k]}

\* C3: a pre_register call stores a mapping under emitter + "/" + role for
\* exactly the suppliers that have a factory and whose role name differs from
\* the emitter's, and under no other key.
C3_StoresForExactlyTheEligible ==
    [][\A t \in EmitterThreads : \A e \in EmitterNames : \A n \in Capacities :
          pre_register(t, e, n) =>
              /\ ChangedKeys = EligibleKeys(e)
              /\ DOMAIN thread_buffer_requests' =
                    DOMAIN thread_buffer_requests \cup EligibleKeys(e)
              /\ \A k \in EligibleKeys(e) :
                    thread_buffer_requests'[k].emitting_thread = t]_vars

\* Suppliers "c" and "b/c", both with a factory; pre_register ("c") left the
\* single key "c/b/c".
C3_Witness ==
    /\ Len(request_buffer_suppliers) = 2
    /\ \A i \in 1..2 : request_buffer_suppliers[i].factory # NoFactory
    /\ {request_buffer_suppliers[i].name : i \in 1..2} = {"c", "b/c"}
    /\ DOMAIN thread_buffer_requests = {"c/b/c"}

\* No name stored for so far holds a '/'.
PlainOnly ==
    \A p \in DOMAIN latest : p[1] \in PlainNames /\ p[2] \in PlainNames

\* C4: with names that hold no '/', and calls made one after the other, the
\* map holds one mapping per key stored under, the one stored last; and a
\* lookup for a role returns one mapping for each emitter name that stored
\* for the role, the one that emitter stored last.
C4_OneLatestMappingPerKey ==
    PlainOnly =>
      /\ DOMAIN thread_buffer_requests = {p[1] \o "/" \o p[2] : p \in DOMAIN latest}
      /\ \A p \in DOMAIN latest :
            thread_buffer_requests[p[1] \o "/" \o p[2]] = latest[p]
      /\ last.op = "lookup" =>
            LET E == {e \in EmitterNames : <<e, last.target_thread>> \in DOMAIN latest}
            IN  /\ Len(last.ret) = Cardinality(E)
                /\ \A e \in E :
                      Cardinality({i \in 1..Len(last.ret) :
                          last.ret[i] = latest[<<e, last.target_thread>>]}) = 1

\* Two emitters stored for the looked-up role, one of them twice.
C4_Witness ==
    /\ PlainOnly
    /\ last.op = "lookup"
    /\ Len(last.ret) = 2
    /\ nextBuffer = 3

\* C5 as claimed: at most one thread is writing the map at a time.
C5_OneMapWriterAtATime ==
    Cardinality(Storing) <= 1

\* C6 as claimed: every mapping a lookup returns has the thread, the role
\* name and the request buffer that one iteration of pre_register wrote
\* together: the buffer is the one its emitting thread had made.
C6_LookupSeesWholeMappings ==
    \A t \in Threads :
        pc[t] = "l110" =>
            \A i \in 1..Len(local[t].ret) :
                /\ local[t].ret[i].emitting_thread = local[t].ret[i].request_buffer.thread
                /\ local[t].ret[i].target_thread_name = local[t].name

(***************************************************************************)
(* invalidate_request together with the registry calls: destruction hooks  *)
(* fire for records on the same or on different loops while one thread     *)
(* registers suppliers, another pre-registers, and both look up.           *)
(***************************************************************************)

\* The threads that call register_request_buffer_factory, and those that
\* call pre_register, in the combined runs.
MixRegistrars == {1}

MixEmitters == {2}

\* Records 1 and 2 each list one request; record 1 belongs to loop 1 and
\* record 2 to loop 1 or loop 2.  In these runs one supplier is registered,
\* pre_register is called until it has made a request buffer, and lookups go
\* on without end.
MixInit ==
    /\ \E l2 \in {1, 2} :
          InvInitWith([r \in Records |-> IF r = 1 THEN 1 ELSE IF r = 2 THEN l2 ELSE NoLoop],
                      [q \in Requests |-> IF q <= 2 THEN q ELSE NoRecord])
    /\ TlsInit
    /\ RegInit

MixNext ==
    \/ \E r \in Records : InvalidateTest(r)
    \/ \E r \in Records : InvalidateLock(r)
    \/ \E r \in Records : InvalidateFlip(r)
    \/ \E r \in Records : InvalidateDelete(r)
    \/ \E r \in Records : InvalidateUnlock(r)
    \/ \E t \in MixRegistrars : \E n \in ConcRoleNames : \E f \in ConcFactories :
          request_buffer_suppliers = <<>> /\ RegisterCall(t, n, f)
    \/ \E t \in MixRegistrars : RegisterLock(t)
    \/ \E t \in MixRegistrars : RegisterPushBack(t)
    \/ \E t \in MixRegistrars : RegisterUnlock(t)
    \/ \E t \in MixEmitters : \E e \in ConcEmitterNames : \E n \in Capacities :
          nextBuffer = 0 /\ PreRegisterCall(t, e, n)
    \/ \E t \in MixEmitters : PreRegisterLock(t)
    \/ \E t \in MixEmitters : PreRegisterBuild(t)
    \/ \E t \in MixEmitters : PreRegisterIndex(t)
    \/ \E t \in MixEmitters : PreRegisterAssignThread(t)
    \/ \E t \in MixEmitters : PreRegisterAssignName(t)
    \/ \E t \in MixEmitters : PreRegisterAssignBuffer(t)
    \/ \E t \in MixEmitters : PreRegisterLoopEnd(t)
    \/ \E t \in MixEmitters : PreRegisterReturn(t)
    \/ \E t \in EmitterThreads : \E n \in ConcRoleNames : LookupCall(t, n)
    \/ \E t \in EmitterThreads : LookupLock(t)
    \/ \E t \in EmitterThreads : LookupScan(t)
    \/ \E t \in EmitterThreads : LookupReturn(t)

\* The steps of thread t that wait for nothing, and the steps that take a lock.
ThreadStep(t) ==
    \/ RegisterPushBack(t) \/ RegisterUnlock(t)
    \/ PreRegisterBuild(t) \/ PreRegisterIndex(t) \/ PreRegisterAssignThread(t)
    \/ PreRegisterAssignName(t) \/ PreRegisterAssignBuffer(t)
    \/ PreRegisterLoopEnd(t) \/ PreRegisterReturn(t)
    \/ LookupScan(t) \/ LookupReturn(t)

ThreadLock(t) == RegisterLock(t) \/ PreRegisterLock(t) \/ LookupLock(t)

\* The steps of invalidate_request for record r once it holds the mutex.
InvalidateStep(r) == InvalidateFlip(r) \/ InvalidateDelete(r) \/ InvalidateUnlock(r)

\* Fair scheduling: a call that can take a step takes one, and a call that
\* waits for a lock gets it if the lock is free again and again.
MixFairness ==
    /\ \A t \in EmitterThreads : WF_vars(ThreadStep(t)) /\ SF_vars(ThreadLock(t))
    /\ \A r \in Records : WF_vars(InvalidateStep(r)) /\ SF_vars(InvalidateLock(r))

\* C11: invalidate_request holds no mutex but the one of its record's own
\* loop, and only between lines 85 and 91; the lock of the registry is held
\* by registry calls only.  A call at line 85 can go on whenever the mutex of
\* its own loop is free, whatever happens to other loops' mutexes and to the
\* registry's lock; a call past line 85 can always go on; and a registry call
\* can go on whenever the registry's lock allows, whatever mutex is held.
C11_OnlyItsOwnLoopsMutex ==
    /\ \A r \in Records : \A l \in Loops :
          slot_invalidation_mutex[l] = r =>
              l = event_loop[r] /\ ipc[r] \in {"l86", "l91"}
    /\ \A t \in thread_buffer_requests_lock.readers :
          pc[t] \in {"l145", "l188", "l188a", "l188b", "l188c", "l190"}
    /\ thread_buffer_requests_lock.writer # NoThread =>
          pc[thread_buffer_requests_lock.writer] \in {"l124", "l125", "l102", "l110"}
    /\ \A r \in Records :
          /\ ipc[r] = "l85" /\ slot_invalidation_mutex[event_loop[r]] = NoRecord
                => ENABLED InvalidateLock(r)
          /\ ipc[r] \in {"l86", "l91"} => ENABLED InvalidateStep(r)
    /\ \A t \in EmitterThreads :
          /\ pc[t] \in {"l123", "l100"} /\ CanWriteLock(thread_buffer_requests_lock)
                => ENABLED ThreadLock(t)
          /\ pc[t] = "l143" /\ CanReadLock(thread_buffer_requests_lock)
                => ENABLED ThreadLock(t)
          /\ pc[t] \notin {"idle", "l123", "l100", "l143"} => ENABLED ThreadStep(t)

\* Two records of different loops are both between lines 85 and 91, each
\* holding its loop's mutex, while a registry call holds the writer lock and
\* another waits for the lock.
C11_Witness ==
    /\ \E r1, r2 \in Records :
          /\ event_loop[r1] # event_loop[r2]
          /\ HoldsMutex(r1) /\ HoldsMutex(r2)
    /\ thread_buffer_requests_lock.writer # NoThread
    /\ \E t \in EmitterThreads : pc[t] = "l143"

C13_AppendsOneEntryAtTheEnd ==
    [][/\ \A t \in EmitterThreads : \A n \in ConcRoleNames :
             \A f \in ConcFactories \cup {NoFactory} :
                RegisterCall(t, n, f) =>
                    local'[t].name = n /\ local'[t].factory = f
       /\ \A t \in EmitterThreads :
             RegisterPushBack(t) =>
                /\ thread_buffer_requests_lock.writer = t
                /\ Len(request_buffer_suppliers') = Len(request_buffer_suppliers) + 1
                /\ SubSeq(request_buffer_suppliers', 1, Len(request_buffer_suppliers))
                      = request_buffer_suppliers
                /\ request_buffer_suppliers'[Len(request_buffer_suppliers')]
                      = [name |-> local[t].name, factory |-> local[t].factory]
       /\ request_buffer_suppliers' # request_buffer_suppliers =>
             \E t \in EmitterThreads : pc[t] = "l124" /\ pc'[t] = "l125"]_vars

\* The same role was registered twice, the second time without a factory.
C13_Witness ==
    /\ Len(request_buffer_suppliers) = 2
    /\ request_buffer_suppliers[1].name = request_buffer_suppliers[2].name
    /\ request_buffer_suppliers[1].factory # NoFactory
    /\ request_buffer_suppliers[2].factory = NoFactory

\* C14: a lookup holds the writer lock, with no reader inside, while it scans
\* and until it returns; what it returns is the mappings of the map, as the
\* map is then, whose target_thread_name is the role asked for: one for each
\* such key, and nothing else.
C14_ReturnsTheRolesMappings ==
    \A t \in EmitterThreads :
        /\ pc[t] \in {"l102", "l110"} =>
              /\ thread_buffer_requests_lock.writer = t
              /\ thread_buffer_requests_lock.readers = {}
        /\ pc[t] = "l110" =>
              LET ret == local[t].ret
                  keys == {k \in DOMAIN thread_buffer_requests :
                              thread_buffer_requests[k].target_thread_name = local[t].name}
              IN  /\ Len(ret) = Cardinality(keys)
                  /\ {ret[i] : i \in 1..Len(ret)} = {thread_buffer_requests[k] : k \in keys}
                  /\ \A i \in 1..Len(ret) : ret[i].target_thread_name = local[t].name

\* A lookup has found the two mappings made for its role.
C14_Witness ==
    \E t \in EmitterThreads :
        /\ pc[t] = "l110"
        /\ local[t].name = "c"
        /\ Len(local[t].ret) = 2
        /\ local[t].ret[1] # local[t].ret[2]

\* The threads whose pre_register call is between taking the reader lock
\* (line 143) and giving it up (line 190).
Iterating ==
    {u \in Threads : pc[u] \in {"l145", "l188", "l188a", "l188b", "l188c", "l190"}}

\* C17: the supplier list does not change while any pre_register call is
\* iterating over it, and a call that has left its loop has gone through the
\* whole list as it was when the call took the lock.
C17_ListFixedWhileIterating ==
    [][/\ request_buffer_suppliers' # request_buffer_suppliers => Iterating = {}
       /\ \A t \in EmitterThreads :
             /\ pc[t] = "l145" /\ pc'[t] = "l190" =>
                   local[t].trs = Len(request_buffer_suppliers) + 1
             /\ t \in Iterating /\ pc'[t] = "l145" =>
                   local'[t].trs \in {local[t].trs, local[t].trs + 1}]_vars

\* A register_request_buffer_factory call waits at its lock while a
\* pre_register call is inside its loop over the list.
C17_Witness ==
    \E t, u \in EmitterThreads :
        /\ pc[t] = "l123"
        /\ pc[u] = "l188"
        /\ local[u].trs = Len(request_buffer_suppliers)

\* The places in the list of the suppliers pre_register (emitter) does not
\* skip.
EligibleIdx(emitter) ==
    {j \in 1..Len(request_buffer_suppliers) :
        /\ request_buffer_suppliers[j].factory # NoFactory
        /\ request_buffer_suppliers[j].name # emitter}

\* C15: one pre_register call invokes a factory once for each supplier it
\* does not skip and for no other, in the order of the list and with the
\* call's num_requests; the mapping it leaves under emitter + "/" + role has
\* the calling thread, the role name, and the request buffer returned by the
\* factory of the last supplier listed with that role.
C15_OneFactoryCallPerEligibleSupplier ==
    [][\A t \in EmitterThreads : \A e \in EmitterNames : \A n \in Capacities :
          pre_register(t, e, n) =>
              /\ nextBuffer' = nextBuffer + Cardinality(EligibleIdx(e))
              /\ \A j \in EligibleIdx(e) :
                    LET role == request_buffer_suppliers[j].name
                        same == {i \in EligibleIdx(e) :
                                    request_buffer_suppliers[i].name = role}
                        final == CHOOSE i \in same : \A x \in same : x <= i
                        nth == Cardinality({i \in EligibleIdx(e) : i <= final})
                    IN  thread_buffer_requests'[e \o "/" \o role] =
                           [emitting_thread |-> t,
                            target_thread_name |-> role,
                            request_buffer |->
                               [factory |-> request_buffer_suppliers[final].factory,
                                num_requests |-> n,
                                thread |-> t,
                                serial |-> nextBuffer + nth]]]_vars

\* Role "c" is listed twice with different factories; pre_register ("a")
\* called both and left the second one's request buffer.
C15_Witness ==
    /\ Len(request_buffer_suppliers) = 2
    /\ request_buffer_suppliers[1] = [name |-> "c", factory |-> 1]
    /\ request_buffer_suppliers[2] = [name |-> "c", factory |-> 2]
    /\ nextBuffer = 2
    /\ DOMAIN thread_buffer_requests = {"a/c"}
    /\ thread_buffer_requests["a/c"].request_buffer.factory = 2
    /\ thread_buffer_requests["a/c"].request_buffer.serial = 2

\* The pairs of names without a '/'.
PlainPairs == PlainNames \X PlainNames

\* C16: two different pairs of names without '/' never have the same key,
\* and a pre_register call changes the mapping of such a pair only if it is
\* a pair the call stores for; ("a/b", "c") and ("a", "b/c") have the same
\* key, and when a call stores for a pair whose key another pair already
\* has, the entry under the key becomes the call's.
C16_KeysOfPlainNamesAreDistinct ==
    [][/\ \A p, q \in PlainPairs :
             p # q => MakeKey(p[1], p[2]) # MakeKey(q[1], q[2])
       /\ MakeKey("a/b", "c") = MakeKey("a", "b/c")
       /\ \A t \in EmitterThreads : \A e \in EmitterNames : \A n \in Capacities :
             pre_register(t, e, n) =>
                /\ \A p \in DOMAIN latest \cap PlainPairs :
                      p[1] \o "/" \o p[2] \in ChangedKeys =>
                          /\ p[1] = e
                          /\ \E j \in EligibleIdx(e) :
                                request_buffer_suppliers[j].name = p[2]
                /\ \A p \in DOMAIN latest : \A j \in EligibleIdx(e) :
                      LET role == request_buffer_suppliers[j].name
                      IN  p # <<e, role>> /\ p[1] \o "/" \o p[2] = e \o "/" \o role =>
                              /\ thread_buffer_requests[e \o "/" \o role].target_thread_name = p[2]
                              /\ thread_buffer_requests'[e \o "/" \o role].target_thread_name = role
                              /\ thread_buffer_requests'[e \o "/" \o role].emitting_thread = t]_vars

\* Emitter "a" stored for role "b/c", then emitter "a/b" stored for role "c"
\* under the same key.
C16_Witness ==
    /\ <<"a", "b/c">> \in DOMAIN latest
    /\ <<"a/b", "c">> \in DOMAIN latest
    /\ "a/b/c" \in DOMAIN thread_buffer_requests
    /\ thread_buffer_requests["a/b/c"].target_thread_name = "c"

\* C20: no call takes an entry out of the supplier list or a key out of the
\* map.  A request buffer that pre_register replaces is in the map no more,
\* the buffer that replaces it is one no earlier call returned, and a lookup
\* returns entries of the map as it is, so a replaced buffer is not returned
\* again.
C20_NothingIsRemoved ==
    [][/\ Len(request_buffer_suppliers') >= Len(request_buffer_suppliers)
       /\ SubSeq(request_buffer_suppliers', 1, Len(request_buffer_suppliers))
             = request_buffer_suppliers
       /\ DOMAIN thread_buffer_requests \subseteq DOMAIN thread_buffer_requests'
       /\ \A k \in ChangedKeys :
             /\ thread_buffer_requests'[k].request_buffer.serial > nextBuffer
             /\ k \in DOMAIN thread_buffer_requests =>
                   \A j \in DOMAIN thread_buffer_requests' :
                       thread_buffer_requests'[j].request_buffer
                          # thread_buffer_requests[k].request_buffer
       /\ last'.op = "lookup" =>
             \A i \in 1..Len(last'.ret) :
                 \E k \in DOMAIN thread_buffer_requests' :
                     thread_buffer_requests'[k] = last'.ret[i]]_vars

\* The request buffer made first for "a/c" was replaced by the second, and a
\* lookup returned the second only.
C20_Witness ==
    /\ nextBuffer = 2
    /\ DOMAIN thread_buffer_requests = {"a/c"}
    /\ last.op = "lookup"
    /\ Len(last.ret) = 1
    /\ last.ret[1].request_buffer.serial = 2

(***************************************************************************)
(* All the operations of the file together: invalidate_request step by     *)
(* step, the registry calls and the event loop pointer calls as wholes.    *)
(***************************************************************************)

\* The inputs of these runs.
CoreSupplierInputs == {<<"c", 1>>, <<"c", NoFactory>>}

CoreEmitterNames == {"a"}

CoreThreads == {1}

CoreLoops == {NoLoop, 1}

CoreNext ==
    \/ \E r \in Records : InvalidateTest(r)
    \/ \E r \in Records : InvalidateLock(r)
    \/ \E r \in Records : InvalidateFlip(r)
    \/ \E r \in Records : InvalidateDelete(r)
    \/ \E r \in Records : InvalidateUnlock(r)
    \/ \E t \in CoreThreads : get_event_loop_for_thread(t)
    \/ \E t \in CoreThreads : \E loop \in CoreLoops : set_event_loop_for_thread(t, loop)
    \/ \E s \in CoreSupplierInputs : register_request_buffer_factory(s[1], s[2])
    \/ \E t \in CoreThreads : \E e \in CoreEmitterNames : \E n \in Capacities :
          pre_register(t, e, n)
    \/ \E n \in ConcRoleNames : get_request_buffers_for_target_thread(n)

\* A step of invalidate_request.
InvalidateAny ==
    \E r \in Records :
        \/ InvalidateTest(r) \/ InvalidateLock(r) \/ InvalidateFlip(r)
        \/ InvalidateDelete(r) \/ InvalidateUnlock(r)

\* C18: no step of any operation sets a valid flag that is false back to
\* true or gives a request whose back-reference was cleared a back-reference
\* again; so the requests of a record that invalidate_request has dealt with
\* are invalid and detached from then on.
C18_ValidityIsMonotonic ==
    [][/\ \A q \in Requests :
             /\ ~valid[q] => ~valid'[q]
             /\ invalidation[q] = NoRecord => invalidation'[q] = NoRecord
       /\ \A r \in Records :
             event_loop[r] # NoLoop /\ ipc[r] \in {"l91", "done"} =>
                 \A q \in Range(requests[r]) :
                     ~valid'[q] /\ invalidation'[q] = NoRecord]_vars

\* Record 1 was invalidated; registry calls and a set of the event loop
\* pointer have run and record 2 is being invalidated, and request 1 is
\* still invalid.
C18_Witness ==
    /\ ipc[1] = "done" /\ ~valid[1] /\ invalidation[1] = NoRecord
    /\ ipc[2] = "l91"
    /\ Len(request_buffer_suppliers) >= 1
    /\ DOMAIN thread_buffer_requests # {}
    /\ \E t \in CoreThreads : thread_event_loop[t] # NoLoop

\* C19: register_request_buffer_factory leaves the map as it is, pre_register
\* leaves the supplier list as it is, a lookup leaves both as they are;
\* invalidate_request leaves both and every thread's event loop pointer as
\* they are; get_event_loop_for_thread and set_event_loop_for_thread leave the
\* list, the map and the requests as they are.
C19_EachOperationKeepsToItsPart ==
    [][/\ (\E s \in CoreSupplierInputs : register_request_buffer_factory(s[1], s[2]))
             => UNCHANGED <<thread_buffer_requests, invVars, thread_event_loop>>
       /\ (\E t \in CoreThreads : \E e \in CoreEmitterNames : \E n \in Capacities :
              pre_register(t, e, n))
             => UNCHANGED <<request_buffer_suppliers, invVars, thread_event_loop>>
       /\ (\E n \in ConcRoleNames : get_request_buffers_for_target_thread(n))
             => UNCHANGED <<request_buffer_suppliers, thread_buffer_requests,
                            invVars, thread_event_loop>>
       /\ InvalidateAny
             => UNCHANGED <<request_buffer_suppliers, thread_buffer_requests,
                            thread_buffer_requests_lock, thread_event_loop>>
       /\ (\E t \in CoreThreads :
              \/ get_event_loop_for_thread(t)
              \/ \E loop \in CoreLoops : set_event_loop_for_thread(t, loop))
             => UNCHANGED <<request_buffer_suppliers, thread_buffer_requests,
                            requests, valid, invalidation, event_loop>>]_vars

\* Every kind of operation has run: a supplier is listed, a mapping is
\* stored and was looked up, a record is freed and a thread has read back
\* the loop it had set.
C19_Witness ==
    /\ Len(request_buffer_suppliers) = 2
    /\ last.op = "lookup" /\ Len(last.ret) = 1
    /\ \E r \in Records : freed[r] = 1 /\ ipc[r] = "done"
    /\ \E t \in CoreThreads : tpc[t] = "got" /\ got[t] # NoLoop

(***************************************************************************)
(* Specifications.                                                         *)
(***************************************************************************)

\* The destruction hooks and the consuming loops, interleaved.
InitInv == InvInit /\ TlsInit /\ RegInit

SpecInv == InitInv /\ [][InvNext]_vars

\* The registry calls, one after the other.
InitReg == InvQuiet /\ TlsInit /\ RegInit

SpecCalls == InitReg /\ [][CallsNext]_vars

\* The registry calls of concurrent threads.
SpecThreads == InitReg /\ [][ThreadsNext]_vars

\* The threads' use of their event loop pointer.
InitTls == InvQuiet /\ TlsInit /\ RegInit

SpecTls == InitTls /\ [][TlsNext]_vars

\* invalidate_request and the registry calls of concurrent threads.
SpecMix == MixInit /\ [][MixNext]_vars

\* The same runs under fair scheduling.
FairMix == SpecMix /\ MixFairness

\* All the operations of the file, interleaved.
SpecCore == MixInit /\ [][CoreNext]_vars

====
